---- MODULE Spec2Model ----
(***************************************************************************)
(* Smart Goal Planner: the goal store (json-server), the React Query       *)
(* cache of the goal list, the mutation hooks of api/goals.ts, the action  *)
(* handlers of pages/Index.tsx and the validating forms in front of them,  *)
(* the deposit dialog and the create form with what they keep while a      *)
(* handler runs, and what the cards and the overview compute to show.      *)
(*                                                                         *)
(* Amounts are whole numbers of the currency; createdAt is a day number    *)
(* (days since 1970-01-01); the clock Date.now() is scaled to one tick an  *)
(* hour, TicksPerDay ticks a day.                                          *)
(***************************************************************************)
EXTENDS Integers, Sequences, FiniteSets, TLC

VARIABLES
    store,        \* json-server's /goals collection: id -> Goal or NoGoal
    cache,        \* React Query data of ["goals"]: loaded flag and the list
    fetch,        \* the GET /goals of useGoals: "idle" or "sent"
    queryError,   \* useGoals().error is set
    ops,          \* one record per handler invocation of Index (in order)
    now,          \* Date.now(), in ticks
    formVersion,  \* which of the two GoalForm versions the build holds
    formError,    \* the goal form shows validation messages
    zone,         \* the browser's time zone: offset and daylight-saving days
    view,         \* what the last GoalCard rendered showed
    wire,         \* the list in the response of GET /goals, on its way back
    stats,        \* what the last OverviewStats rendered showed
    dialog,       \* the DepositDialog of the seeded goal's card
    form          \* the GoalForm that creates goals

vars == <<store, cache, fetch, queryError, ops, now, formVersion, formError,
          zone, view, wire, stats, dialog, form>>

---------------------------------------------------------------------------
(* Bounds of the model *)

MaxOps == 2        \* handler invocations in one run
MaxSaved == 3      \* cap on a deposit's result

\* the seeded goal of db.json, and the ids Date.now() can give afterwards
SeedId == 1
Ids == SeedId..(SeedId + MaxOps)

Max(a, b) == IF a >= b THEN a ELSE b

---------------------------------------------------------------------------
(* Goal records *)

NoGoal == [absent |-> TRUE]

EmptyList == [i \in Ids |-> NoGoal]

\* 1000 * 60 * 60 * 24 milliseconds, in ticks
TicksPerDay == 24

\* new Date().toISOString().split("T")[0]
UtcDate(t) == t \div TicksPerDay

SeedGoal(s) ==
    [id |-> SeedId, name |-> "Fund", targetAmount |-> 1, savedAmount |-> s,
     category |-> "Home", deadline |-> "2030-01-01", createdAt |-> 0]

SeedSaved == {1}

\* Mutant: the body replaces the record as a PUT does, and a field that the
\* body leaves out is set back to its initial value
MergePatch_Put(goal, body) ==
    [f \in DOMAIN goal |->
        IF f \in DOMAIN body THEN body[f]
        ELSE IF f = "savedAmount" THEN 0 ELSE goal[f]]

\* PATCH: the fields of the body replace those of the record, the rest stay
MergePatch(goal, body) ==
    [f \in DOMAIN goal |-> IF f \in DOMAIN body THEN body[f] ELSE goal[f]]

---------------------------------------------------------------------------
(* Time zones: off is the standard offset from UTC in ticks; daylight      *)
(* saving time (one tick more) starts at 02:00 standard time of day fwd    *)
(* and ends at 02:00 standard time of day back (none when fwd = back).     *)

Utc == [off |-> 0, fwd |-> 0, back |-> 0]

\* UTC, a zone east of it without daylight saving, and a zone west of it
\* whose clocks go forward, or back, on day 1
Zones ==
    {Utc,
     [off |-> 3, fwd |-> 0, back |-> 0],
     [off |-> 0 - 5, fwd |-> 1, back |-> 400],
     [off |-> 0 - 5, fwd |-> 0 - 400, back |-> 1]}

\* daylight saving time is in force at the instant e
DstOn(e, z) ==
    /\ z.fwd * TicksPerDay + 2 <= e + z.off
    /\ e + z.off < z.back * TicksPerDay + 2

\* what a clock on the wall of zone z shows at the instant e
LocalClock(e, z) == e + z.off + (IF DstOn(e, z) THEN 1 ELSE 0)

\* the calendar date in zone z at the instant e
LocalDate(e, z) == LocalClock(e, z) \div TicksPerDay

\* new Date(date + "T00:00:00").getTime(): the instant at which day d
\* begins in zone z
LocalMidnight(d, z) ==
    d * TicksPerDay - z.off - (IF z.fwd < d /\ d <= z.back THEN 1 ELSE 0)

NoView == [none |-> TRUE]

\* no response of GET /goals is on its way
NoWire == [none |-> TRUE]

\* OverviewStats has not rendered
NoStats == [none |-> TRUE]

\* the widget is not under observation
NoDialog == [none |-> TRUE]
NoForm == [none |-> TRUE]

---------------------------------------------------------------------------
(* api/goals.ts *)

\* Mutant: http() throws on every response (the body never parses)
HttpOutcome_Throws(res) == "rejected"

\* http(): a response that is not ok throws, any other resolves
HttpOutcome(res) == IF res = "ok" THEN "resolved" ELSE "rejected"

\* postGoal's request body
PostGoalBody(input, t) ==
    [id |-> t, name |-> input.name, targetAmount |-> input.targetAmount,
     savedAmount |-> 0, category |-> input.category,
     deadline |-> input.deadline, createdAt |-> UtcDate(t)]

\* useDeposit.mutationFn: current?.savedAmount ?? 0, read from the cache
CachedSaved(id) ==
    IF cache.goals[id] = NoGoal THEN 0 ELSE cache.goals[id].savedAmount

\* Mutant: no clamp at 0
NewSaved_NoClamp(base, amount) == base + amount

\* Mutant: the clamp is on the cached amount, not on the sum
NewSaved_ClampBase(base, amount) == Max(0, base) + amount

\* Mutant: the cached amount is left out of the sum
NewSaved_NoBase(base, amount) == Max(0, amount)

\* useDeposit.mutationFn: Math.max(0, base + amount)
NewSaved(base, amount) == Max(0, base + amount)

\* Mutant: the PATCH carries the target as well, raised by the deposit
DepositBody_Target(base, amount) ==
    [savedAmount |-> NewSaved(base, amount), targetAmount |-> Max(1, amount)]

\* Mutant: the PATCH carries the cached amount, the deposit left out
DepositBody_Base(base, amount) == [savedAmount |-> Max(0, base)]

\* Mutant: the PATCH carries the deposit, not the new total
DepositBody_Delta(base, amount) == [savedAmount |-> amount]

\* useDeposit.mutationFn: patchGoal(id, { savedAmount: newSaved })
DepositBody(base, amount) == [savedAmount |-> NewSaved(base, amount)]

NoBody == [none |-> TRUE]

NewOp(kind, id, body, base, amount) ==
    [kind |-> kind, id |-> id, body |-> body, base |-> base, amount |-> amount,
     st |-> "sent", res |-> "none", reqs |-> 1,
     toastOk |-> 0, toastErr |-> 0]

OpIds == DOMAIN ops

---------------------------------------------------------------------------
(* The goal form and the deposit dialog *)

FormNames == {"", "X", "Trip"}
FormTargets == {0, 2}
FormCategories == {"", "Travel"}
FormDeadlines == {"", "2030-01-01"}

FormFilled ==
    [name |-> "Trip", targetAmount |-> 2, category |-> "Travel",
     deadline |-> "2030-01-01"]

\* what the user may submit: a filled form with at most one field changed
FormValues ==
    {[FormFilled EXCEPT !.name = n] : n \in FormNames}
    \cup {[FormFilled EXCEPT !.targetAmount = a] : a \in FormTargets}
    \cup {[FormFilled EXCEPT !.category = c] : c \in FormCategories}
    \cup {[FormFilled EXCEPT !.deadline = d] : d \in FormDeadlines}

FormVersions == {"GoalForm.tsx", "part_001"}

\* Mutant: targetAmount is z.number() with no minimum
FormSchemaOk_NoMin(v) ==
    /\ Len(v.name) >= 1
    /\ Len(v.category) >= 1
    /\ Len(v.deadline) >= 1

\* formSchema (components/goals/GoalForm.tsx)
FormSchemaOk(v) ==
    /\ Len(v.name) >= 1
    /\ v.targetAmount >= 1
    /\ Len(v.category) >= 1
    /\ Len(v.deadline) >= 1

\* GoalSchema (the other version of GoalForm)
GoalSchemaOk(v) ==
    /\ Len(v.name) >= 2
    /\ v.targetAmount > 0
    /\ Len(v.category) >= 1
    /\ Len(v.deadline) >= 1

\* zodResolver: form.handleSubmit calls onSubmit only with values that parse
FormValid(v) ==
    IF formVersion = "GoalForm.tsx" THEN FormSchemaOk(v) ELSE GoalSchemaOk(v)

\* What the user may have typed into the amount field, and Number() of it
AmountStrings == {"", "abc", "0", "-1", "1", "2"}

JsNumber(s) ==
    CASE s = ""    -> [nan |-> FALSE, val |-> 0]
      [] s = "abc" -> [nan |-> TRUE,  val |-> 0]
      [] s = "0"   -> [nan |-> FALSE, val |-> 0]
      [] s = "-1"  -> [nan |-> FALSE, val |-> 0 - 1]
      [] s = "1"   -> [nan |-> FALSE, val |-> 1]
      [] s = "2"   -> [nan |-> FALSE, val |-> 2]

\* Mutant: the check of isNaN is left out
AmountRejected_NoNaN(s) ==
    s = "" \/ (~JsNumber(s).nan /\ JsNumber(s).val <= 0)

\* DepositDialog.handleDeposit: !amount || isNaN(n) || n <= 0 returns early
AmountRejected(s) ==
    s = "" \/ JsNumber(s).nan \/ JsNumber(s).val <= 0

\* Index renders a GoalCard for every cached goal once the list has loaded
CardShown(g) ==
    cache.loaded /\ ~queryError /\ cache.goals[g] # NoGoal

---------------------------------------------------------------------------
(* pages/Index.tsx: the handlers start one mutation each *)

Begin(op) ==
    /\ Len(ops) < MaxOps
    /\ ops' = Append(ops, op)

\* Date.now() is read at time t, the tick of the last reading or a later one
handleCreate(values, t) ==
    /\ t \in {now, now + 1}
    /\ now' = t
    /\ Begin(NewOp("create", t, PostGoalBody(values, t), 0, 0))

\* Mutant: the edit sends the cached savedAmount along with the values
handleUpdate_WithSaved(id, data) ==
    Begin(NewOp("update", id,
                [f \in DOMAIN data \cup {"savedAmount"} |->
                    IF f = "savedAmount" THEN CachedSaved(id) ELSE data[f]],
                0, 0))

\* Mutant: the edit sends a whole record built the way postGoal builds one
handleUpdate_Rebuilt(id, data) ==
    Begin(NewOp("update", id, PostGoalBody(data, now), 0, 0))

handleUpdate(id, data) ==
    Begin(NewOp("update", id, data, 0, 0))

handleDelete(id) ==
    Begin(NewOp("delete", id, NoBody, 0, 0))

handleDeposit(id, amount) ==
    /\ NewSaved(CachedSaved(id), amount) <= MaxSaved
    /\ Begin(NewOp("deposit", id, DepositBody(CachedSaved(id), amount),
                   CachedSaved(id), amount))

\* a handler that has returned keeps no request: what is left of it is the
\* response it got and the toasts it showed
Returned(o) ==
    [o EXCEPT !.st = "done", !.kind = "none", !.id = 0, !.body = NoBody, !.base = 0, !.amount = 0]

\* Mutant: the handler has no catch and the rejection leaves it
OnRejected_Uncaught(o) == [Returned(o) EXCEPT !.st = "threw"]

\* the catch branch of a handler: toast.error(...)
OnRejected(o) == [Returned(o) EXCEPT !.toastErr = @ + 1]

\* a handler resumes after await mutateAsync(...): toast.success(...)
OnResolved(o) == [Returned(o) EXCEPT !.toastOk = @ + 1]

\* every handler waiting for the list to be refetched resumes
ResumeAll(os) ==
    [i \in DOMAIN os |-> IF os[i].st = "await" THEN OnResolved(os[i]) ELSE os[i]]

---------------------------------------------------------------------------
(* User actions *)

SubmitCreate(values, t) ==
    /\ IF FormValid(values)
          THEN handleCreate(values, t) /\ formError' = FALSE
          ELSE formError' = TRUE /\ UNCHANGED <<ops, now>>
    /\ UNCHANGED <<store, cache, fetch, queryError, formVersion, zone, view, wire, stats, dialog, form>>

SubmitEdit(g, values) ==
    /\ CardShown(g)
    /\ IF FormValid(values)
          THEN handleUpdate(g, values) /\ formError' = FALSE
          ELSE formError' = TRUE /\ UNCHANGED ops
    /\ UNCHANGED <<store, cache, fetch, queryError, now, formVersion, zone, view, wire, stats, dialog, form>>

ConfirmDelete(g) ==
    /\ CardShown(g)
    /\ handleDelete(g)
    /\ UNCHANGED <<store, cache, fetch, queryError, now, formVersion, zone, view, wire, stats, dialog, form, formError>>

DialogDeposit(g, s) ==
    /\ CardShown(g)
    /\ IF AmountRejected(s)
          THEN UNCHANGED ops
          ELSE handleDeposit(g, JsNumber(s).val)
    /\ UNCHANGED <<store, cache, fetch, queryError, now, formVersion, zone, view, wire, stats, dialog, form, formError>>

\* The handlers called with any goal input, id and amount
ApiInputs ==
    [name : {"Trip"}, targetAmount : {2},
     category : {"Travel"}, deadline : {"2030-01-01"}]
ApiIds == {SeedId, SeedId + 1}
ApiAmounts == {0 - 3, 0, 1}

CallCreate(input, t) ==
    /\ handleCreate(input, t)
    /\ UNCHANGED <<store, cache, fetch, queryError, formVersion, zone, view, wire, stats, dialog, form, formError>>

CallUpdate(id, data) ==
    /\ handleUpdate(id, data)
    /\ UNCHANGED <<store, cache, fetch, queryError, now, formVersion, zone, view, wire, stats, dialog, form, formError>>

CallDelete(id) ==
    /\ handleDelete(id)
    /\ UNCHANGED <<store, cache, fetch, queryError, now, formVersion, zone, view, wire, stats, dialog, form, formError>>

CallDeposit(id, amount) ==
    /\ handleDeposit(id, amount)
    /\ UNCHANGED <<store, cache, fetch, queryError, now, formVersion, zone, view, wire, stats, dialog, form, formError>>

---------------------------------------------------------------------------
(* components/goals/DepositDialog.tsx, in the card of the seeded goal *)

\* the dialog as GoalCard mounts it: closed, nothing typed. waits holds the
\* handler invocations an onDeposit of this dialog awaits, last what the
\* last call of its handleDeposit did
FreshDialog ==
    [open |-> FALSE, amount |-> "", isSubmitting |-> FALSE, waits |-> {},
     last |-> "none"]

\* disabled={!amount || Number(amount) <= 0 || isSubmitting}; NaN <= 0 is
\* false
ButtonDisabled(d) ==
    \/ d.amount = ""
    \/ (~JsNumber(d.amount).nan /\ JsNumber(d.amount).val <= 0)
    \/ d.isSubmitting

\* handleKeyPress: e.key === "Enter" && amount && Number(amount) > 0
EnterSubmits(d) ==
    /\ d.amount # ""
    /\ ~JsNumber(d.amount).nan
    /\ JsNumber(d.amount).val > 0

\* DepositDialog.handleDeposit up to its await: the early return, or
\* setIsSubmitting(true) and onDeposit(numericAmount), which is GoalCard's
\* onDeposit(goal.id, amount), which is Index.handleDeposit
DepositDialog_handleDeposit ==
    IF AmountRejected(dialog.amount)
       THEN /\ dialog' = [dialog EXCEPT !.last = "returned"]
            /\ UNCHANGED ops
       ELSE /\ handleDeposit(SeedId, JsNumber(dialog.amount).val)
            /\ dialog' = [dialog EXCEPT !.isSubmitting = TRUE,
                                        !.waits = @ \cup {Len(ops) + 1},
                                        !.last = "called"]

\* DepositDialog.handleDeposit after its await, when a handler of os that
\* it awaits has returned: Index.handleDeposit catches every rejection, so
\* the await never throws and setDepositOpen(false), setAmount(""),
\* onOpenChange(false) and setIsSubmitting(false) all run. A card that is
\* no longer rendered has unmounted its dialog, and mounts a new one later
DialogResumed(d, os, shown) ==
    IF d = NoDialog THEN d
    ELSE IF ~shown THEN FreshDialog
    ELSE IF \E i \in d.waits : os[i].st = "done"
       THEN [d EXCEPT !.open = FALSE, !.amount = "", !.isSubmitting = FALSE,
                      !.waits = {i \in @ : os[i].st # "done"}]
       ELSE d

---------------------------------------------------------------------------
(* components/goals/GoalForm.tsx, in create mode under Index *)

\* useForm's defaultValues, the deadline being the day the form is mounted
FormDefaults ==
    IF formVersion = "GoalForm.tsx"
       THEN [name |-> "", targetAmount |-> 1000, category |-> "",
             deadline |-> "1970-01-01"]
       ELSE [name |-> "", targetAmount |-> 0, category |-> "", deadline |-> ""]

\* GoalForm.handleSubmit after await onSubmit(values), when a handler of os
\* that it awaits has returned: Index.handleCreate catches every rejection,
\* so form.reset() runs in GoalForm.tsx; the other version has no reset
FormResumed(f, os) ==
    IF f = NoForm THEN f
    ELSE IF \E i \in f.waits : os[i].st = "done"
       THEN [values |-> IF formVersion = "GoalForm.tsx"
                           THEN FormDefaults ELSE f.values,
             waits |-> {i \in f.waits : os[i].st # "done"}]
       ELSE f

\* GoalForm.handleSubmit up to its await, behind form.handleSubmit: values
\* that do not parse show messages, values that parse go to onSubmit, which
\* is Index.handleCreate
GoalForm_handleSubmit(t) ==
    IF FormValid(form.values)
       THEN /\ handleCreate(form.values, t)
            /\ form' = [form EXCEPT !.waits = @ \cup {Len(ops) + 1}]
            /\ formError' = FALSE
       ELSE /\ formError' = TRUE
            /\ UNCHANGED <<ops, now, form>>

\* the widgets go on after the handlers they await have returned
Widgets ==
    /\ dialog' = DialogResumed(dialog, ops', CardShown(SeedId)')
    /\ form' = FormResumed(form, ops')

---------------------------------------------------------------------------
(* The user at the deposit dialog and at the create form *)

\* the Deposit button of the card: setDepositOpen(true)
OpenDialog ==
    /\ CardShown(SeedId)
    /\ ~dialog.open
    /\ dialog' = [dialog EXCEPT !.open = TRUE]
    /\ UNCHANGED <<store, cache, fetch, queryError, ops, now, formVersion, formError, zone, view, wire, stats, form>>

\* Escape, a click outside, or Cancel: onOpenChange(false)
CloseDialog ==
    /\ dialog.open
    /\ dialog' = [dialog EXCEPT !.open = FALSE]
    /\ UNCHANGED <<store, cache, fetch, queryError, ops, now, formVersion, formError, zone, view, wire, stats, form>>

\* the amount field, which stays enabled during a submission: setAmount
TypeAmount(s) ==
    /\ dialog.open
    /\ dialog.amount # s
    /\ dialog' = [dialog EXCEPT !.amount = s]
    /\ UNCHANGED <<store, cache, fetch, queryError, ops, now, formVersion, formError, zone, view, wire, stats, form>>

\* a click on the dialog's Deposit button
ClickDeposit ==
    /\ dialog.open
    /\ ~ButtonDisabled(dialog)
    /\ DepositDialog_handleDeposit
    /\ UNCHANGED <<store, cache, fetch, queryError, now, formVersion, formError, zone, view, wire, stats, form>>

\* the Enter key in the amount field: handleKeyPress
PressEnter ==
    /\ dialog.open
    /\ EnterSubmits(dialog)
    /\ DepositDialog_handleDeposit
    /\ UNCHANGED <<store, cache, fetch, queryError, now, formVersion, formError, zone, view, wire, stats, form>>

\* what the user fills the create form with
FormInputs == {FormFilled, [FormFilled EXCEPT !.name = ""]}

FillForm(v) ==
    /\ form.values # v
    /\ form' = [form EXCEPT !.values = v]
    /\ UNCHANGED <<store, cache, fetch, queryError, ops, now, formVersion, formError, zone, view, wire, stats, dialog>>

\* the form's submit button
SubmitForm(t) ==
    /\ GoalForm_handleSubmit(t)
    /\ UNCHANGED <<store, cache, fetch, queryError, formVersion, zone, view, wire, stats, dialog>>

---------------------------------------------------------------------------
(* The store: json-server handling one request *)

Answer(i, res) ==
    ops' = [ops EXCEPT ![i].st = "resp", ![i].res = res]

ServerPost(i) ==
    /\ ops[i].st = "sent" /\ ops[i].kind = "create"
    /\ store[ops[i].id] = NoGoal
    /\ store' = [store EXCEPT ![ops[i].id] = ops[i].body]
    /\ Answer(i, "ok")
    /\ UNCHANGED <<cache, fetch, queryError, now, formVersion, zone, view, wire, stats, dialog, form, formError>>

ServerPatch(i) ==
    /\ ops[i].st = "sent" /\ ops[i].kind \in {"update", "deposit"}
    /\ store[ops[i].id] # NoGoal
    /\ store' = [store EXCEPT ![ops[i].id] = MergePatch(@, ops[i].body)]
    /\ Answer(i, "ok")
    /\ UNCHANGED <<cache, fetch, queryError, now, formVersion, zone, view, wire, stats, dialog, form, formError>>

ServerDelete(i) ==
    /\ ops[i].st = "sent" /\ ops[i].kind = "delete"
    /\ store[ops[i].id] # NoGoal
    /\ store' = [store EXCEPT ![ops[i].id] = NoGoal]
    /\ Answer(i, "ok")
    /\ UNCHANGED <<cache, fetch, queryError, now, formVersion, zone, view, wire, stats, dialog, form, formError>>

\* a response that is not 2xx: 404 for a missing goal, a duplicate id, a 5xx
ServerReject(i) ==
    /\ ops[i].st = "sent"
    /\ Answer(i, "err")
    /\ UNCHANGED <<store, cache, fetch, queryError, now, formVersion, zone, view, wire, stats, dialog, form, formError>>

---------------------------------------------------------------------------
(* React Query: the mutation hooks and the list query *)

\* Mutant: onSuccess does not refetch the list
Invalidate_NoRefetch(i) ==
    /\ fetch' = fetch
    /\ wire' = wire
    /\ ops' = [ops EXCEPT ![i] = OnResolved(@)]

\* qc.invalidateQueries({queryKey: ["goals"]}) by the mutation of handler i:
\* a refetch in flight is cancelled and started again once the list has been
\* loaded (the handlers waiting for it resume, its response is dropped),
\* joined before that (its response, sent or not, is the one awaited)
Invalidate(i) ==
    LET waiting == [ops EXCEPT ![i].st = "await"] IN
    /\ fetch' = "sent"
    /\ IF fetch = "sent" /\ cache.loaded
          THEN ops' = [ResumeAll(ops) EXCEPT ![i].st = "await"] /\ wire' = NoWire
          ELSE ops' = waiting /\ wire' = wire

\* Mutant: onSuccess also writes the returned record into the cached list
MutationSuccess_SetData(i) ==
    /\ ops[i].st = "resp"
    /\ HttpOutcome(ops[i].res) = "resolved"
    /\ Invalidate(i)
    /\ queryError' = (IF cache.loaded THEN queryError ELSE FALSE)
    /\ cache' = [cache EXCEPT !.goals = store]
    /\ UNCHANGED <<store, now, formVersion, zone, view, stats, formError>>
    /\ Widgets

\* the response of a mutation is ok: onSuccess
MutationSuccess(i) ==
    /\ ops[i].st = "resp"
    /\ HttpOutcome(ops[i].res) = "resolved"
    /\ Invalidate(i)
    /\ queryError' = (IF cache.loaded THEN queryError ELSE FALSE)
    /\ UNCHANGED <<store, cache, now, formVersion, zone, view, stats, formError>>
    /\ Widgets

\* Mutant: the mutation is sent once more before it is given up (retry: 1)
MutationError_Retry(i) ==
    /\ ops[i].st = "resp"
    /\ HttpOutcome(ops[i].res) = "rejected"
    /\ ops' = [ops EXCEPT ![i] =
                 IF @.reqs < 2
                    THEN [@ EXCEPT !.st = "sent", !.res = "none", !.reqs = @ + 1]
                    ELSE OnRejected(@)]
    /\ UNCHANGED <<store, cache, fetch, queryError, now, formVersion, zone, view, wire, stats, formError>>
    /\ Widgets

\* the response of a mutation is not ok: mutateAsync rejects
MutationError(i) ==
    /\ ops[i].st = "resp"
    /\ HttpOutcome(ops[i].res) = "rejected"
    /\ ops' = [ops EXCEPT ![i] = OnRejected(@)]
    /\ UNCHANGED <<store, cache, fetch, queryError, now, formVersion, zone, view, wire, stats, formError>>
    /\ Widgets

\* GET /goals answers with the collection and the query takes it as its data
FetchSuccess ==
    /\ fetch = "sent"
    /\ wire = NoWire
    /\ cache' = [loaded |-> TRUE, goals |-> store]
    /\ queryError' = FALSE
    /\ fetch' = "idle"
    /\ ops' = ResumeAll(ops)
    /\ UNCHANGED <<store, now, formVersion, zone, view, wire, stats, formError>>
    /\ Widgets

\* GET /goals in two steps. The store answers with the collection it holds
FetchServe ==
    /\ fetch = "sent"
    /\ wire = NoWire
    /\ wire' = [goals |-> store]
    /\ UNCHANGED <<store, cache, fetch, queryError, ops, now, formVersion, zone, view, stats, dialog, form, formError>>

\* The response reaches the browser and the query takes its list as its data
FetchReceive ==
    /\ fetch = "sent"
    /\ wire # NoWire
    /\ cache' = [loaded |-> TRUE, goals |-> wire.goals]
    /\ queryError' = FALSE
    /\ fetch' = "idle"
    /\ wire' = NoWire
    /\ ops' = ResumeAll(ops)
    /\ UNCHANGED <<store, now, formVersion, zone, view, stats, formError>>
    /\ Widgets

\* GET /goals fails (after the query's own retries)
FetchError ==
    /\ fetch = "sent"
    /\ queryError' = TRUE
    /\ fetch' = "idle"
    /\ wire' = NoWire
    /\ ops' = ResumeAll(ops)
    /\ UNCHANGED <<store, cache, now, formVersion, zone, view, stats, formError>>
    /\ Widgets

---------------------------------------------------------------------------
(* IEEE 754 doubles, as far as getProgress needs them: the quotient of two *)
(* positive whole numbers below 2^12 and its product with 100. A double is *)
(* written with a fraction of 52 bits held in four limbs of 13 bits.       *)

Limb == 2^13

RECURSIVE DivLimbs(_, _, _)
\* the next n limbs of the quotient r / d, for a remainder r < d
DivLimbs(r, d, n) ==
    IF n = 0 THEN <<>>
    ELSE <<(r * Limb) \div d>> \o DivLimbs((r * Limb) % d, d, n - 1)

RECURSIVE DivRem(_, _, _)
\* the remainder left after those n limbs
DivRem(r, d, n) ==
    IF n = 0 THEN r ELSE DivRem((r * Limb) % d, d, n - 1)

RECURSIVE AddLow(_, _)
\* c added to the lowest limb of L: the carry out, then the limbs
AddLow(L, c) ==
    IF L = <<>> THEN <<c>>
    ELSE LET n == Len(L)
             v == L[n] + c
         IN  AddLow(SubSeq(L, 1, n - 1), v \div Limb) \o <<v % Limb>>

RECURSIVE MulLow(_, _, _)
\* L times m, plus c: the carry out, then the limbs
MulLow(L, m, c) ==
    IF L = <<>> THEN <<c>>
    ELSE LET n == Len(L)
             v == L[n] * m + c
         IN  MulLow(SubSeq(L, 1, n - 1), m, v \div Limb) \o <<v % Limb>>

\* s / t in double arithmetic, for s > 0 and t > 0: the double nearest to
\* the quotient (ties to even), (1 + frac / 2^52) * 2^exp
DoubleQuot(s, t) ==
    LET a == CHOOSE k \in 0..12 :
                 s * 2^k >= t /\ (k = 0 \/ s * 2^(k - 1) < t)
        b == CHOOSE k \in 0..12 : t * 2^k <= s /\ s < t * 2^(k + 1)
        n == IF s < t THEN s * 2^a ELSE s
        d == IF s < t THEN t ELSE t * 2^b
        x == IF s < t THEN 0 - a ELSE b
        L == DivLimbs(n - d, d, 4)
        r == DivRem(n - d, d, 4)
        up == 2 * r > d \/ (2 * r = d /\ L[4] % 2 = 1)
        R == IF up THEN AddLow(L, 1) ELSE <<0>> \o L
    IN  [exp |-> x + R[1], frac |-> SubSeq(R, 2, 5)]

\* q * 100 in double arithmetic: the double nearest to the product (ties
\* to even), written (top + frac / 2^52) * 2^exp with 100 <= top <= 200
Times100(q) ==
    LET P == MulLow(q.frac, 100, 0)
        top == 100 + P[1]
        l == SubSeq(P, 2, 5)
        drop == IF top < 128 THEN 6 ELSE 7
        low == l[4] % 2^drop
        up == \/ low > 2^(drop - 1)
              \/ low = 2^(drop - 1) /\ (l[4] \div 2^drop) % 2 = 1
        cleared == [l EXCEPT ![4] = @ - low]
        R == IF up THEN AddLow(cleared, 2^drop) ELSE <<0>> \o cleared
    IN  [exp |-> q.exp, top |-> top + R[1], frac |-> SubSeq(R, 2, 5)]

\* Math.round(p): the whole number nearest to p, a half going up
MathRound(p) ==
    LET twice == IF p.exp + 1 >= 0
                    THEN p.top * 2^(p.exp + 1)
                         + (p.frac[1] * 2^(p.exp + 1)) \div Limb
                    ELSE p.top \div 2^(0 - (p.exp + 1))
    IN  (twice + 1) \div 2

---------------------------------------------------------------------------
(* types/goal.ts and the GoalCard *)

Min(a, b) == IF a <= b THEN a ELSE b

\* Mutant: the percentage is not capped at 100
getProgress_NoMin(g) ==
    IF g.targetAmount <= 0 THEN 0
    ELSE IF g.savedAmount = 0 THEN 0
    ELSE MathRound(Times100(DoubleQuot(g.savedAmount, g.targetAmount)))

getProgress(g) ==
    IF g.targetAmount <= 0 THEN 0
    ELSE Min(100, IF g.savedAmount = 0 THEN 0
                  ELSE MathRound(Times100(DoubleQuot(g.savedAmount,
                                                     g.targetAmount))))

\* Mutant: no clamp at 0
getRemaining_NoClamp(g) == g.targetAmount - g.savedAmount

getRemaining(g) == Max(0, g.targetAmount - g.savedAmount)

\* the day number (days since 1970-01-01) of a date written YYYY-MM-DD
DayNumber(date) ==
    CASE date = "1970-01-02" -> 1
      [] date = "1970-01-03" -> 2
      [] date = "1970-02-01" -> 31
      [] date = "2030-01-01" -> 21915

\* Math.ceil(a / b) for b > 0
CeilDiv(a, b) == 0 - ((0 - a) \div b)

\* daysLeft(deadline), evaluated now in the browser's time zone
daysLeft(deadline) ==
    CeilDiv(LocalMidnight(DayNumber(deadline), zone) - now, TicksPerDay)

\* Mutant: the deadline is looked at before the completion
getStatus_OverdueFirst(goal) ==
    LET complete == goal.savedAmount >= goal.targetAmount /\ goal.targetAmount > 0
        left == daysLeft(goal.deadline)
    IN  IF left < 0 THEN "Overdue"
        ELSE IF complete THEN "Completed"
        ELSE IF left <= 30 THEN "Due soon"
        ELSE "Active"

\* getStatus(goal).label
getStatus(goal) ==
    LET complete == goal.savedAmount >= goal.targetAmount /\ goal.targetAmount > 0
        left == daysLeft(goal.deadline)
    IN  IF complete THEN "Completed"
        ELSE IF left < 0 THEN "Overdue"
        ELSE IF left <= 30 THEN "Due soon"
        ELSE "Active"

\* a GoalCard is mounted for the cached goal g and computes what it shows
RenderCard(g) ==
    /\ CardShown(g)
    /\ view' = [id |-> g, at |-> now,
                progress |-> getProgress(cache.goals[g]),
                remaining |-> getRemaining(cache.goals[g]),
                status |-> getStatus(cache.goals[g]),
                left |-> daysLeft(cache.goals[g].deadline)]
    /\ UNCHANGED <<store, cache, fetch, queryError, ops, now, formVersion,
                   formError, zone, wire, stats, dialog, form>>

---------------------------------------------------------------------------
(* components/goals/OverviewStats.tsx, in its two versions *)

StatsVersions == {"OverviewStats.tsx", "part_002"}

\* the ids of the goals of a list
Listed(goals) == {g \in Ids : goals[g] # NoGoal}

RECURSIVE SumSaved(_, _)
\* goals.reduce((sum, goal) => sum + goal.savedAmount, 0) over the ids in S
SumSaved(goals, S) ==
    IF S = {} THEN 0
    ELSE LET g == CHOOSE x \in S : TRUE
         IN  goals[g].savedAmount + SumSaved(goals, S \ {g})

\* OverviewStats.tsx: goals.filter(goal => goal.savedAmount >=
\* goal.targetAmount).length
completedGoals(goals) ==
    Cardinality({g \in Listed(goals) :
                    goals[g].savedAmount >= goals[g].targetAmount})

\* the other version: ... && g.targetAmount > 0
completed(goals) ==
    Cardinality({g \in Listed(goals) :
                    /\ goals[g].savedAmount >= goals[g].targetAmount
                    /\ goals[g].targetAmount > 0})

\* OverviewStats is rendered, in the version ver, for the cached list
RenderOverview(ver) ==
    /\ cache.loaded /\ ~queryError
    /\ stats' = [by |-> ver,
                 totalGoals |-> Cardinality(Listed(cache.goals)),
                 totalSaved |-> SumSaved(cache.goals, Listed(cache.goals)),
                 completedGoals |-> IF ver = "OverviewStats.tsx"
                                       THEN completedGoals(cache.goals)
                                       ELSE completed(cache.goals)]
    /\ UNCHANGED <<store, cache, fetch, queryError, ops, now, formVersion,
                   formError, zone, view, wire, dialog, form>>

---------------------------------------------------------------------------
(* Specifications *)

Start ==
    /\ \E s \in SeedSaved : store = [EmptyList EXCEPT ![SeedId] = SeedGoal(s)]
    /\ cache = [loaded |-> FALSE, goals |-> EmptyList]
    /\ fetch = "sent"
    /\ queryError = FALSE
    /\ ops = <<>>
    /\ now = SeedId + 1
    /\ formError = FALSE
    /\ zone = Utc
    /\ view = NoView
    /\ wire = NoWire
    /\ stats = NoStats
    /\ dialog = NoDialog
    /\ form = NoForm

Network ==
    \/ \E i \in OpIds : ServerPost(i)
    \/ \E i \in OpIds : ServerPatch(i)
    \/ \E i \in OpIds : ServerDelete(i)
    \/ \E i \in OpIds : ServerReject(i)
    \/ \E i \in OpIds : MutationSuccess(i)
    \/ \E i \in OpIds : MutationError(i)
    \/ FetchSuccess
    \/ FetchError

\* the application as its pages drive it, every form filled in validly
Init == Start /\ formVersion = "GoalForm.tsx"

Next ==
    \/ \E v \in FormValues, t \in Ids : FormValid(v) /\ SubmitCreate(v, t)
    \/ \E g \in Ids, v \in FormValues : FormValid(v) /\ SubmitEdit(g, v)
    \/ \E g \in Ids : ConfirmDelete(g)
    \/ \E g \in Ids, s \in AmountStrings : DialogDeposit(g, s)
    \/ Network

Spec == Init /\ [][Next]_vars

\* the goal form of either version, submitted with any values, on a page
\* whose cards can be deleted
InitForm == Start /\ formVersion \in FormVersions

NextForm ==
    \/ \E v \in FormValues, t \in Ids : SubmitCreate(v, t)
    \/ \E g \in Ids, v \in FormValues : SubmitEdit(g, v)
    \/ \E g \in Ids : ConfirmDelete(g)
    \/ Network

SpecForm == InitForm /\ [][NextForm]_vars

\* the handlers of Index called directly
NextApi ==
    \/ \E v \in ApiInputs, t \in Ids : CallCreate(v, t)
    \/ \E g \in ApiIds, v \in ApiInputs : CallUpdate(g, v)
    \/ \E g \in ApiIds : CallDelete(g)
    \/ \E g \in ApiIds, a \in ApiAmounts : CallDeposit(g, a)
    \/ Network

SpecApi == Init /\ [][NextApi]_vars

\* the handlers of Index called directly, in any time zone, the seeded goal
\* created in the current tick or before it, the input of a create carrying
\* fields of its own or not
UntypedInputs ==
    {[name |-> "Trip", targetAmount |-> 2, category |-> "Travel",
      deadline |-> "2030-01-01", id |-> SeedId, savedAmount |-> 3,
      createdAt |-> 9]}

InitClock ==
    /\ \E s \in SeedSaved : store = [EmptyList EXCEPT ![SeedId] = SeedGoal(s)]
    /\ cache = [loaded |-> FALSE, goals |-> EmptyList]
    /\ fetch = "sent"
    /\ queryError = FALSE
    /\ ops = <<>>
    /\ now \in {SeedId, SeedId + 1}
    /\ formVersion = "GoalForm.tsx"
    /\ formError = FALSE
    /\ zone \in Zones
    /\ view = NoView
    /\ wire = NoWire
    /\ stats = NoStats
    /\ dialog = NoDialog
    /\ form = NoForm

NextClock ==
    \/ \E v \in UntypedInputs, t \in Ids : CallCreate(v, t)
    \/ NextApi

SpecClock == InitClock /\ [][NextClock]_vars

\* the cards of a loaded list, mounted at any hour of the first MaxDays days
\* in any time zone, for goals as db.json may hold them
MaxDays == 3

CardAmounts ==
    {<<0, 8>>, <<1, 8>>, <<23, 40>>, <<250, 1000>>, <<1200, 1000>>,
     <<8, 8>>, <<0, 0>>, <<1, 0>>, <<1, 0 - 5>>}

CardDeadlines == {"1970-01-02", "1970-01-03", "1970-02-01", "2030-01-01"}

\* every pair of amounts with one deadline, every deadline with a goal that
\* has reached its target and one that has not
CardGoals ==
    {[SeedGoal(a[1]) EXCEPT !.targetAmount = a[2], !.deadline = "1970-01-02"]
        : a \in CardAmounts}
    \cup {[SeedGoal(a[1]) EXCEPT !.targetAmount = a[2], !.deadline = d]
              : a \in {<<1, 8>>, <<8, 8>>}, d \in CardDeadlines}

Tick ==
    /\ now < MaxDays * TicksPerDay
    /\ now' = now + 1
    /\ UNCHANGED <<store, cache, fetch, queryError, ops, formVersion,
                   formError, zone, view, wire, stats, dialog, form>>

InitCard ==
    /\ \E g \in CardGoals : store = [EmptyList EXCEPT ![SeedId] = g]
    /\ cache = [loaded |-> TRUE, goals |-> store]
    /\ fetch = "idle"
    /\ queryError = FALSE
    /\ ops = <<>>
    /\ now = 0
    /\ formVersion = "GoalForm.tsx"
    /\ formError = FALSE
    /\ zone \in Zones
    /\ view = NoView
    /\ wire = NoWire
    /\ stats = NoStats
    /\ dialog = NoDialog
    /\ form = NoForm

NextCard ==
    \/ \E g \in Ids : RenderCard(g)
    \/ Tick

SpecCard == InitCard /\ [][NextCard]_vars

\* the application as its pages drive it, the response of GET /goals taking
\* time to arrive
NextWire ==
    \/ \E t \in Ids : SubmitCreate(FormFilled, t)
    \/ \E g \in Ids : SubmitEdit(g, FormFilled)
    \/ \E g \in Ids : ConfirmDelete(g)
    \/ \E g \in Ids, s \in AmountStrings : DialogDeposit(g, s)
    \/ \E i \in OpIds : ServerPost(i)
    \/ \E i \in OpIds : ServerPatch(i)
    \/ \E i \in OpIds : ServerDelete(i)
    \/ \E i \in OpIds : ServerReject(i)
    \/ \E i \in OpIds : MutationSuccess(i)
    \/ \E i \in OpIds : MutationError(i)
    \/ FetchServe
    \/ FetchReceive
    \/ FetchError

SpecWire == Init /\ [][NextWire]_vars

\* the deposit dialog of the seeded goal's card, used as the page offers
\* it, on a page where goals are created and deleted
InitDialog ==
    /\ \E s \in SeedSaved : store = [EmptyList EXCEPT ![SeedId] = SeedGoal(s)]
    /\ cache = [loaded |-> FALSE, goals |-> EmptyList]
    /\ fetch = "sent"
    /\ queryError = FALSE
    /\ ops = <<>>
    /\ now = SeedId + 1
    /\ formVersion = "GoalForm.tsx"
    /\ formError = FALSE
    /\ zone = Utc
    /\ view = NoView
    /\ wire = NoWire
    /\ stats = NoStats
    /\ dialog = FreshDialog
    /\ form = NoForm

NextDialog ==
    \/ OpenDialog
    \/ CloseDialog
    \/ \E s \in AmountStrings : TypeAmount(s)
    \/ ClickDeposit
    \/ PressEnter
    \/ \E t \in Ids : SubmitCreate(FormFilled, t)
    \/ \E g \in Ids : ConfirmDelete(g)
    \/ Network

SpecDialog == InitDialog /\ [][NextDialog]_vars

\* the create form of either version, filled in and submitted as the page
\* offers it, on a page whose cards take edits and can be deleted
InitCreate ==
    /\ \E s \in SeedSaved : store = [EmptyList EXCEPT ![SeedId] = SeedGoal(s)]
    /\ cache = [loaded |-> FALSE, goals |-> EmptyList]
    /\ fetch = "sent"
    /\ queryError = FALSE
    /\ ops = <<>>
    /\ now = SeedId + 1
    /\ formVersion \in FormVersions
    /\ formError = FALSE
    /\ zone = Utc
    /\ view = NoView
    /\ wire = NoWire
    /\ stats = NoStats
    /\ dialog = NoDialog
    /\ form = [values |-> FormDefaults, waits |-> {}]

NextCreate ==
    \/ \E v \in FormInputs : FillForm(v)
    \/ \E t \in Ids : SubmitForm(t)
    \/ \E g \in Ids : SubmitEdit(g, FormFilled)
    \/ \E g \in Ids : ConfirmDelete(g)
    \/ Network

SpecCreate == InitCreate /\ [][NextCreate]_vars

\* the overview and the cards of a loaded list of one or two goals as
\* db.json may hold them, in any time zone
InitOverview ==
    /\ \E g \in CardGoals, h \in CardGoals \cup {NoGoal} :
          store = [EmptyList EXCEPT
                     ![SeedId] = g,
                     ![SeedId + 1] = IF h = NoGoal THEN h
                                     ELSE [h EXCEPT !.id = SeedId + 1]]
    /\ cache = [loaded |-> TRUE, goals |-> store]
    /\ fetch = "idle"
    /\ queryError = FALSE
    /\ ops = <<>>
    /\ now = 0
    /\ formVersion = "GoalForm.tsx"
    /\ formError = FALSE
    /\ zone \in Zones
    /\ view = NoView
    /\ wire = NoWire
    /\ stats = NoStats
    /\ dialog = NoDialog
    /\ form = NoForm

NextOverview ==
    \/ \E ver \in StatsVersions : RenderOverview(ver)
    \/ \E g \in Ids : RenderCard(g)

SpecOverview == InitOverview /\ [][NextOverview]_vars

---------------------------------------------------------------------------
(* Properties *)

Stored == {g \in Ids : store[g] # NoGoal}

IsDeposit(i) == ops[i].kind = "deposit"

\* the store handles the request of handler i in this step and answers res
Answered(i, res) ==
    ops[i].st = "sent" /\ ops'[i].st = "resp" /\ ops'[i].res = res

\* handler i is called in this step
Called(i) == i = Len(ops) + 1 /\ Len(ops') = i

\* C1: every goal in the store has savedAmount >= 0, whatever creates, edits,
\* deposits (of any sign) and deletes have happened.
C1_SavedNonNegative ==
    \A g \in Stored : store[g].savedAmount >= 0

\* a withdrawal larger than the cached balance has been written to the store
C1_Witness ==
    \E i \in OpIds :
        /\ IsDeposit(i) /\ ops[i].res = "ok"
        /\ ops[i].base + ops[i].amount < 0
        /\ ops[i].id \in Stored
        /\ store[ops[i].id].savedAmount = 0

\* C2: of two deposits to one goal computed from the same cached base b, the
\* one whose PATCH the store handles last decides the stored amount: it is
\* max(0, b + a) for that deposit alone, not b + a1 + a2.
C2_LostUpdate ==
    [][\A i, j \in OpIds :
          ( /\ i # j /\ IsDeposit(i) /\ IsDeposit(j)
            /\ ops[i].id = ops[j].id /\ ops[i].base = ops[j].base
            /\ ops[i].res = "ok"
            /\ Answered(j, "ok") )
          => /\ store'[ops[j].id].savedAmount = Max(0, ops[j].base + ops[j].amount)
             /\ store'[ops[j].id].savedAmount
                  # ops[j].base + ops[i].amount + ops[j].amount]_vars

\* both PATCHes have been handled and the first deposit is lost
C2_Witness ==
    \E i, j \in OpIds :
        /\ i # j /\ IsDeposit(i) /\ IsDeposit(j)
        /\ ops[i].id = ops[j].id /\ ops[i].base = ops[j].base
        /\ ops[i].amount # ops[j].amount
        /\ ops[i].res = "ok" /\ ops[j].res = "ok"
        /\ ops[j].id \in Stored
        /\ store[ops[j].id].savedAmount = ops[j].base + ops[j].amount
        /\ store[ops[j].id].savedAmount < ops[j].base + ops[i].amount + ops[j].amount

\* C3 as stated: a deposit of 0 that succeeds leaves the stored savedAmount of
\* its goal as it was.
C3_ZeroDepositKeepsStored ==
    [][\A i \in OpIds :
          (IsDeposit(i) /\ ops[i].amount = 0 /\ Answered(i, "ok"))
          => store'[ops[i].id].savedAmount = store[ops[i].id].savedAmount]_vars

\* C3 amended: a deposit of 0 that succeeds stores the savedAmount the cache
\* held for the goal when the deposit was made, so the stored savedAmount
\* stays as it was when it equals that cached amount.
C3_ZeroDepositWritesCached ==
    [][\A i \in OpIds :
          (IsDeposit(i) /\ ops[i].amount = 0 /\ Answered(i, "ok"))
          => /\ store'[ops[i].id].savedAmount = ops[i].base
             /\ store[ops[i].id].savedAmount = ops[i].base
                  => store'[ops[i].id] = store[ops[i].id]]_vars

\* a deposit of 0 has been handled and the goal holds the cached amount
C3_Witness ==
    \E i \in OpIds :
        /\ IsDeposit(i) /\ ops[i].amount = 0 /\ ops[i].res = "ok"
        /\ ops[i].id \in Stored
        /\ ops[i].base > 0
        /\ store[ops[i].id].savedAmount = ops[i].base

\* C4: a deposit made while the cache holds savedAmount s for the goal
\* sends, and on success stores, max(0, s + amount): never less than 0, and
\* exactly 0 for a withdrawal larger than s.
C4_DepositWrites ==
    [][\A i \in DOMAIN ops' :
          /\ ( /\ Called(i) /\ ops'[i].kind = "deposit"
               /\ cache.goals[ops'[i].id] # NoGoal )
             => LET s == cache.goals[ops'[i].id].savedAmount
                    a == ops'[i].amount
                    w == ops'[i].body.savedAmount
                IN  /\ w = (IF s + a >= 0 THEN s + a ELSE 0)
                    /\ w >= 0
                    /\ (0 - a > s) => w = 0
          /\ (i \in OpIds /\ IsDeposit(i) /\ Answered(i, "ok"))
             => store'[ops[i].id].savedAmount = ops[i].body.savedAmount]_vars

\* the cache held 2, 3 were withdrawn, and the store holds 0
C4_Witness ==
    \E i \in OpIds :
        /\ IsDeposit(i) /\ ops[i].base = 2 /\ ops[i].amount = 0 - 3
        /\ ops[i].res = "ok"
        /\ ops[i].id \in Stored
        /\ store[ops[i].id].savedAmount = 0

\* C5: a deposit that fails (its handler reports the error) got a response
\* that was not ok, and neither that response nor the failure changes any
\* goal of the store.
C5_FailedDepositKeepsStore ==
    [][\A i \in OpIds :
          IsDeposit(i) =>
            /\ Answered(i, "err") => store' = store
            /\ (ops[i].st = "resp" /\ ops'[i].toastErr > ops[i].toastErr)
               => ops[i].res = "err" /\ store' = store]_vars

\* a deposit was refused: its goal does not hold the amount it asked for,
\* and another goal is in the store
C5_Witness ==
    \E i \in OpIds :
        /\ IsDeposit(i) /\ ops[i].st = "resp" /\ ops[i].res = "err"
        /\ ops[i].id \in Stored
        /\ store[ops[i].id].savedAmount # ops[i].body.savedAmount
        /\ Stored \ {ops[i].id} # {}

C7_CacheOnlyFromFetch ==
    [][cache' # cache
          => /\ fetch = "sent" /\ fetch' = "idle"
             /\ cache' = [loaded |-> TRUE, goals |-> store]
             /\ \A i \in OpIds : ops[i].st \in {"sent", "resp"} => ops'[i] = ops[i]]_vars

\* a mutation has succeeded and the cached list is still the old one
C7_Witness ==
    \E i \in OpIds :
        /\ ops[i].st = "await" /\ ops[i].res = "ok"
        /\ cache.loaded /\ cache.goals # store

\* C8: a handler that has returned showed exactly one toast, the success
\* toast if its request succeeded and the error toast if it failed; a
\* handler still waiting has shown none, and no handler is left by an
\* uncaught rejection.
C8_OneOutcome ==
    \A i \in OpIds :
        /\ ops[i].st \in {"sent", "resp", "await", "done"}
        /\ ops[i].st # "done" => ops[i].toastOk = 0 /\ ops[i].toastErr = 0
        /\ ops[i].st = "done" =>
             /\ ops[i].toastOk + ops[i].toastErr = 1
             /\ ops[i].res = "ok" => ops[i].toastOk = 1
             /\ ops[i].res = "err" => ops[i].toastErr = 1

\* one handler has returned with the success toast, one with the error toast
C8_Witness ==
    \E i, j \in OpIds :
        /\ ops[i].st = "done" /\ ops[i].res = "ok" /\ ops[i].toastOk = 1
        /\ ops[j].st = "done" /\ ops[j].res = "err" /\ ops[j].toastErr = 1

\* C9: a handler sends one request; once its response is a failure it sends
\* nothing more and can only return.
C9_NoRetry ==
    [][\A i \in DOMAIN ops' :
          /\ ops'[i].reqs <= 1
          /\ (i \in OpIds /\ ops[i].res = "err")
             => /\ ops'[i].reqs = ops[i].reqs
                /\ ops'[i].res = "err"
                /\ ops'[i].st \in {"resp", "done"}]_vars

\* a failed handler has returned after its one request
C9_Witness ==
    \E i \in OpIds :
        ops[i].st = "done" /\ ops[i].res = "err" /\ ops[i].reqs = 1

\* C10: every POST and PATCH the goal form has sent carries a name, a
\* category and a deadline that are not empty and a targetAmount > 0, and
\* every goal in the store has targetAmount > 0.
C10_ValidatedBeforeRequest ==
    /\ \A i \in OpIds :
          ops[i].kind \in {"create", "update"} =>
             /\ ops[i].body.name # ""
             /\ ops[i].body.targetAmount > 0
             /\ ops[i].body.category # ""
             /\ ops[i].body.deadline # ""
    /\ \A g \in Stored : store[g].targetAmount > 0

\* a submission was refused by the form while the request of an earlier,
\* valid one is on its way
C10_Witness ==
    /\ formError
    /\ \E i \in OpIds : ops[i].kind \in {"create", "update"} /\ ops[i].st = "sent"

\* C11 as stated: goal ids are unique, so no two creates give their goals
\* the same id, however quickly one follows the other.
C11_UniqueIds ==
    \A i, j \in OpIds :
        (i # j /\ ops[i].kind = "create" /\ ops[j].kind = "create")
        => ops[i].id # ops[j].id

\* C12 as stated: a goal that a create has stored has savedAmount 0, the
\* current date (the date in the user's time zone when it was created) as
\* createdAt, the id the client gave it, and name, targetAmount, category
\* and deadline as the request carried them.
C12_CreatedRecord ==
    [][\A i \in OpIds :
          (ops[i].kind = "create" /\ Answered(i, "ok"))
          => LET g == store'[ops[i].id] IN
             /\ g.savedAmount = 0
             /\ g.createdAt = LocalDate(ops[i].id, zone)
             /\ g.id = ops[i].id
             /\ g.name = ops[i].body.name
             /\ g.targetAmount = ops[i].body.targetAmount
             /\ g.category = ops[i].body.category
             /\ g.deadline = ops[i].body.deadline]_vars

\* C13: whatever edits and deposits the app makes, a goal that stays in the
\* store keeps its id and its createdAt.
C13_IdCreatedAtKept ==
    [][\A g \in Ids :
          (store[g] # NoGoal /\ store'[g] # NoGoal)
          => /\ store'[g].id = store[g].id
             /\ store'[g].createdAt = store[g].createdAt]_vars

\* an edit and a deposit of the seeded goal have both been stored, and the
\* goal has the id and the createdAt it was seeded with
C13_Witness ==
    \E i, j \in OpIds :
        /\ ops[i].kind = "update" /\ ops[i].res = "ok" /\ ops[i].id = SeedId
        /\ IsDeposit(j) /\ ops[j].res = "ok" /\ ops[j].id = SeedId
        /\ store[SeedId] # NoGoal
        /\ store[SeedId].name = ops[i].body.name
        /\ store[SeedId].savedAmount = ops[j].body.savedAmount
        /\ store[SeedId].id = SeedId
        /\ store[SeedId].createdAt = SeedGoal(0).createdAt

\* C14: a successful update gives the goal the fields of its body and
\* leaves its other fields (savedAmount for an edit from the form) and all
\* other goals as they were; the list fetched next is the store's.
C14_UpdateRoundTrip ==
    [][/\ \A i \in OpIds :
             (ops[i].kind = "update" /\ Answered(i, "ok"))
             => LET old == store[ops[i].id]
                    new == store'[ops[i].id]
                    body == ops[i].body
                IN  /\ old # NoGoal /\ new # NoGoal
                    /\ \A f \in DOMAIN body : new[f] = body[f]
                    /\ \A f \in DOMAIN old \ DOMAIN body : new[f] = old[f]
                    /\ DOMAIN new = DOMAIN old
                    /\ "savedAmount" \notin DOMAIN body
                          => new.savedAmount = old.savedAmount
                    /\ \A h \in Ids \ {ops[i].id} : store'[h] = store[h]
       /\ (fetch = "sent" /\ fetch' = "idle" /\ ~queryError')
             => cache'.loaded /\ cache'.goals = store]_vars

\* the list shows the seeded goal under its new name, with the savedAmount
\* and createdAt it had
C14_Witness ==
    /\ cache.loaded /\ fetch = "idle" /\ ~queryError
    /\ cache.goals[SeedId] # NoGoal
    /\ cache.goals[SeedId].name = "Trip"
    /\ cache.goals[SeedId].targetAmount = 2
    /\ cache.goals[SeedId].savedAmount = SeedGoal(1).savedAmount
    /\ cache.goals[SeedId].createdAt = SeedGoal(1).createdAt

\* a delete of goal g has succeeded: the seeded goal is gone, or the store
\* has answered ok to a delete of g
Deleted(g) ==
    /\ store[g] = NoGoal
    /\ \/ g = SeedId
       \/ \E i \in OpIds :
             ops[i].kind = "delete" /\ ops[i].id = g /\ ops[i].res = "ok"

\* C15 as stated: a goal whose delete has succeeded is never in the store
\* again, and an edit or a deposit that reaches the store after the delete
\* is refused and stores nothing.
C15_DeletePermanent ==
    [][/\ \A g \in Ids : Deleted(g) => store'[g] = NoGoal
       /\ \A i \in OpIds :
             ( /\ ops[i].kind \in {"update", "deposit"}
               /\ ops[i].st = "sent" /\ ops'[i].st = "resp"
               /\ store[ops[i].id] = NoGoal )
             => ops'[i].res = "err" /\ store' = store]_vars

\* the goal of the card that was mounted last
Shown == cache.goals[view.id]

\* C16: the status of a card is the first that applies of: Completed if
\* savedAmount >= targetAmount and targetAmount > 0, Overdue if daysLeft < 0,
\* Due soon if daysLeft <= 30, Active; so a goal that has reached a target
\* above 0 is Completed even past its deadline, and a goal with a target of
\* 0 or less is never Completed.
C16_StatusOrder ==
    view # NoView =>
       LET complete == Shown.savedAmount >= Shown.targetAmount
                       /\ Shown.targetAmount > 0
       IN  /\ complete => view.status = "Completed"
           /\ (~complete /\ view.left < 0) => view.status = "Overdue"
           /\ (~complete /\ 0 <= view.left /\ view.left <= 30)
                 => view.status = "Due soon"
           /\ (~complete /\ view.left > 30) => view.status = "Active"
           /\ Shown.targetAmount <= 0 => view.status # "Completed"

\* a goal that has reached its target is shown Completed after its deadline
C16_Witness ==
    /\ view # NoView
    /\ view.status = "Completed" /\ view.left < 0
    /\ Shown.savedAmount >= Shown.targetAmount

\* C17 as stated: daysLeft is the number of days from today's date (where
\* the user is) to the deadline's date, at whatever hour it is evaluated:
\* 0 all through the deadline day, k all through the day k days before it,
\* -k all through the day k days after it.
C17_WholeDays ==
    view # NoView =>
       view.left = DayNumber(Shown.deadline) - LocalDate(view.at, zone)

\* C18: for a goal with targetAmount > 0 the progress is a whole number
\* from 0 to 100, also when savedAmount is above targetAmount.
C18_ProgressRange ==
    (view # NoView /\ Shown.targetAmount > 0) => view.progress \in 0..100

\* a goal saved beyond its target shows 100
C18_Witness ==
    /\ view # NoView
    /\ Shown.targetAmount > 0 /\ Shown.savedAmount > Shown.targetAmount
    /\ view.progress = 100

\* C19 as stated: the progress is 0 for a targetAmount of 0 or less, and
\* otherwise min(100, round(savedAmount / targetAmount * 100)), a half
\* rounded up.
C19_ProgressValue ==
    view # NoView =>
       view.progress =
          IF Shown.targetAmount <= 0 THEN 0
          ELSE Min(100, (200 * Shown.savedAmount + Shown.targetAmount)
                           \div (2 * Shown.targetAmount))

\* C20: the remaining amount is max(0, targetAmount - savedAmount), never
\* below 0, also for a goal saved beyond its target or with a target of 0
\* or less.
C20_Remaining ==
    view # NoView =>
       /\ view.remaining >= 0
       /\ Shown.targetAmount >= Shown.savedAmount
             => view.remaining = Shown.targetAmount - Shown.savedAmount
       /\ Shown.targetAmount < Shown.savedAmount => view.remaining = 0

\* a goal saved beyond its target, or with a target below 0, has 0 remaining
C20_Witness ==
    /\ view # NoView
    /\ Shown.targetAmount - Shown.savedAmount < 0
    /\ view.remaining = 0

\* handler i returns in this step
Returns(i) == ops[i].st # "done" /\ ops'[i].st = "done"

\* C21: the deposit dialog only submits positive numbers: whatever is typed
\* into the amount field and however the dialog is submitted, every deposit
\* that Index is asked for has an amount above 0.
C21_PositiveDeposits ==
    \A i \in OpIds : IsDeposit(i) => ops[i].amount > 0

\* handleDeposit has run on an amount it rejects and has returned, and no
\* handler of Index has been called
C21_Witness ==
    /\ dialog.open
    /\ dialog.last = "returned"
    /\ AmountRejected(dialog.amount)
    /\ ops = <<>>

\* C22 as stated: the dialog closes and clears its amount after a deposit
\* that succeeded; after a deposit whose request failed it is not closed
\* and its amount is not cleared.
C22_CloseOnSuccessOnly ==
    [][\A i \in OpIds :
          (i \in dialog.waits /\ Returns(i)) =>
             IF ops[i].res = "ok"
                THEN ~dialog'.open /\ dialog'.amount = ""
                ELSE dialog'.open = dialog.open /\ dialog'.amount = dialog.amount]_vars

\* C23 as stated: the goal form resets its fields only after a submission
\* that succeeded; after a create that failed the values are still in the
\* form.
C23_ResetOnSuccessOnly ==
    [][\A i \in OpIds :
          (i \in form.waits /\ Returns(i) /\ ops[i].res # "ok") =>
             form'.values = form.values]_vars

\* C24: a deposit changes nothing but savedAmount of its goal: its PATCH
\* body carries savedAmount alone, and when the store applies it the other
\* fields of the goal and every other goal stay as they were.
C24_DepositFrame ==
    [][\A i \in OpIds :
          IsDeposit(i) =>
            /\ DOMAIN ops[i].body = {"savedAmount"}
            /\ Answered(i, "ok") =>
                 \A g \in Ids :
                    IF g = ops[i].id
                       THEN store'[g] =
                              [store[g] EXCEPT !.savedAmount = ops[i].body.savedAmount]
                       ELSE store'[g] = store[g]]_vars

\* a deposit has changed the amount of its goal next to another stored goal
C24_Witness ==
    \E i \in OpIds :
        /\ IsDeposit(i) /\ ops[i].res = "ok"
        /\ ops[i].id \in Stored
        /\ store[ops[i].id].savedAmount = ops[i].body.savedAmount
        /\ store[ops[i].id].savedAmount # ops[i].base
        /\ store[ops[i].id].targetAmount > 0
        /\ Stored \ {ops[i].id} # {}

\* the deposit of handler i was computed from the amount the store holds:
\* the list was refetched after the last write to the goal, and nothing has
\* written to it since
Sequential(i) ==
    /\ ops[i].id \in Stored
    /\ ops[i].base = store[ops[i].id].savedAmount

\* C25: deposits made one after the other compound: a deposit started when
\* every earlier handler has returned is computed from the amount the store
\* holds, and a positive deposit computed from the amount the store holds
\* adds its amount to it, so n of them leave the initial amount plus
\* a1 + ... + an.
C25_Compound ==
    [][\A i \in DOMAIN ops' :
          /\ ( /\ Called(i) /\ ops'[i].kind = "deposit"
               /\ \A j \in OpIds : ops[j].st = "done" )
             => /\ ops'[i].id \in Stored
                /\ ops'[i].base = store[ops'[i].id].savedAmount
          /\ ( /\ i \in OpIds /\ IsDeposit(i) /\ ops[i].amount > 0
               /\ Sequential(i) /\ Answered(i, "ok") )
             => store'[ops[i].id].savedAmount
                   = store[ops[i].id].savedAmount + ops[i].amount]_vars

\* the second of two deposits, started after the first had returned, has
\* been added on top of the first
C25_Witness ==
    \E i \in OpIds :
        /\ IsDeposit(i) /\ ops[i].res = "ok" /\ ops[i].amount > 0
        /\ \A j \in 1..(i - 1) : ops[j].st = "done" /\ ops[j].toastOk = 1
        /\ i > 1
        /\ \A s \in SeedSaved : ops[i].base > s
        /\ ops[i].id \in Stored
        /\ store[ops[i].id].savedAmount = ops[i].base + ops[i].amount

\* no mutation and no fetch of the list is in flight, and the last fetch of
\* the list succeeded
Quiescent ==
    /\ \A i \in OpIds : ops[i].st = "done"
    /\ fetch = "idle"
    /\ cache.loaded /\ ~queryError

\* C26 as stated: whenever no mutation and no fetch of the list is in flight
\* and the most recent fetch of the list succeeded, the cached list is the
\* store's collection.
C26_CoherentAtQuiescence ==
    Quiescent => cache.goals = store

\* C27 as stated: a dialog has at most one deposit submission in flight:
\* while one is being processed neither the Deposit button nor the Enter key
\* starts a second onDeposit.
C27_OneSubmission ==
    /\ Cardinality(dialog.waits) <= 1
    /\ \A i \in dialog.waits : dialog.isSubmitting

\* C28 as stated: the amounts that the pages send being positive, the stored
\* savedAmount of a goal never goes down across creates, edits and deposits
\* made through the pages.
C28_SavedNeverDecreases ==
    [][\A g \in Ids :
          (store[g] # NoGoal /\ store'[g] # NoGoal)
          => store'[g].savedAmount >= store[g].savedAmount]_vars

\* the fields an edit sends
EditFields == {"name", "targetAmount", "category", "deadline"}

\* the goal g holds the values of the edit of handler i
Edited(i, g) == \A f \in EditFields : g[f] = ops[i].body[f]

\* C29: an edit and a deposit on one goal, both in flight, commute: the one
\* the store applies second leaves what the first wrote, so the goal ends
\* with the edited name, targetAmount, category and deadline and with the
\* deposit's savedAmount in either order.
C29_EditDepositCommute ==
    [][\A i, j \in OpIds :
          ( /\ ops[i].kind = "update" /\ IsDeposit(j)
            /\ ops[i].id = ops[j].id /\ ops[i].id \in Stored )
          => /\ ( /\ ops[i].res = "ok" /\ Edited(i, store[ops[i].id])
                  /\ Answered(j, "ok") )
                => /\ Edited(i, store'[ops[i].id])
                   /\ store'[ops[i].id].savedAmount = ops[j].body.savedAmount
             /\ ( /\ ops[j].res = "ok"
                  /\ store[ops[i].id].savedAmount = ops[j].body.savedAmount
                  /\ Answered(i, "ok") )
                => /\ Edited(i, store'[ops[i].id])
                   /\ store'[ops[i].id].savedAmount = ops[j].body.savedAmount]_vars

\* an edit and a deposit of one goal have both been applied while both were
\* in flight, and the goal holds the new values and the new amount
C29_Witness ==
    \E i, j \in OpIds :
        /\ ops[i].kind = "update" /\ IsDeposit(j)
        /\ ops[i].id = ops[j].id /\ ops[i].id \in Stored
        /\ ops[i].res = "ok" /\ ops[j].res = "ok"
        /\ Edited(i, store[ops[i].id])
        /\ store[ops[i].id].name # SeedGoal(0).name
        /\ store[ops[i].id].savedAmount = ops[j].body.savedAmount
        /\ store[ops[i].id].savedAmount # ops[j].base

\* C30 as stated: the number of completed goals that the overview shows is
\* the number of goals whose card shows the status Completed, for every
\* list of goals.
C30_CompletedCount ==
    stats # NoStats =>
       stats.completedGoals =
          Cardinality({g \in Listed(cache.goals) :
                          getStatus(cache.goals[g]) = "Completed"})

====
